---- MODULE Spec2Model ----
(***************************************************************************)
(* The pomodoro timer as a state machine.                                  *)
(*                                                                         *)
(* Spec:     the session of src/src/pomodoro.rs. The Pomodoro struct's     *)
(*           fields are the variables, each public method is an action     *)
(*           that any caller may take, and the clock is the environment.   *)
(* SpecMain: the program of src/src/main.rs, which carries its own copy of *)
(*           the session (a project has one counter, seconds; tick() is    *)
(*           not debounced, the run loop is) and drives it from its run    *)
(*           loop: poll for a key, handle it, tick when a second is up.    *)
(* SpecStartup: main() of src/src/main.rs from the start of the process to *)
(*           the run loop (init_db, the config override, the project       *)
(*           lookup), run after run over the tables the earlier runs left. *)
(* SpecLate: Spec under a caller that may call tick() seconds late.        *)
(* SpecLive: Spec under a loop that keeps calling tick() (weak fairness).  *)
(* SpecNotify: Spec together with the threads that notify() spawns.        *)
(* SpecFormat: the texts the display draws for a countdown and a counter.  *)
(***************************************************************************)
EXTENDS Integers, Sequences, FiniteSets, TLC

\* ------------------------------------------------------------------ bounds
MaxFocus == 2
MaxBreak == 1
MaxLongBreak == 1
MaxCycles == 2
\* seconds a session counts down before the model stops counting ticks
MaxSeconds == 62
\* counted seconds of a session during which reset and skip may be issued in the
\* middle of a countdown (at the start or the end of a countdown they always may)
MaxEarly == 2
\* counters of the record loaded at start (u32 in the code; the bounds stay far
\* from its overflow)
MaxLoaded == 0
\* the positive value a duration or cycle flag of the command line may carry (0 is
\* the other value)
MaxFlag == 2
\* seconds a project's row may hold before the model stops counting
MaxStored == 1
\* whole seconds the clock of SpecLate counts since last_tick before it saturates
MaxLate == 2
\* the countdown values the display is drawn at run from 0 to MaxShown
MaxShown == 125

\* ------------------------------------------------------- program constants
SECS_PER_MIN == 60
\* Duration::from_secs(1), in whole seconds
tick_rate == 1

Modes == {"Focus", "Break", "LongBreak"}

VARIABLES
    mode,            \* Pomodoro.mode
    focus,           \* Pomodoro.focus (minutes)
    break_time,      \* Pomodoro.break_time (minutes)
    long_break,      \* Pomodoro.long_break (minutes)
    cycles,          \* Pomodoro.cycles
    project,         \* Pomodoro.project: the session's working copy
    current_cycle,   \* Pomodoro.current_cycle
    remaining_secs,  \* Pomodoro.remaining_secs
    running,         \* Pomodoro.running
    elapsed,         \* last_tick.elapsed() in whole seconds, saturating at tick_rate
                     \* (at MaxLate in SpecLate)
    total_seconds,   \* Pomodoro.total_seconds (pomodoro.rs only)
    is_project,      \* main: the project overview is shown
    pc,              \* main: where main is: "start" .. "session", then the run loop:
                     \* "poll", "check", then "done", "failed", "exited"
    db,              \* main: the projects table, name -> seconds
    config_table,    \* main: the config table, id -> row
    cli,             \* main: the parsed command line; an Option is a sequence of
                     \* length 0 (None) or 1 (Some)
    config,          \* main: the local variable config
    trace,           \* history: the writes of this run to the tables
    op,              \* history: the operation that produced this state
    emitted,         \* history: notification threads spawned by that operation
    threads,         \* the notification threads alive: stage -> how many are at it
    screen,          \* what the last draw has put on the terminal
    prev,            \* history: the session as it was before that operation
    loaded,          \* history: the project record the session was built from
    hist             \* history: counts of the ticks and phase changes so far

session == <<mode, project, current_cycle, remaining_secs, running, elapsed, total_seconds>>
settings == <<focus, break_time, long_break, cycles>>
history == <<op, emitted, prev, loaded, hist>>
aside == <<threads, screen>>
startup == <<config_table, cli, config, trace>>
program == <<is_project, pc, db, startup>>
vars == <<session, settings, history, program, aside>>

\* Project::new / a stored record: name, focus_seconds, total_seconds
Project(n, f, t) == [name |-> n, focus_seconds |-> f, total_seconds |-> t]

\* Pomodoro::new
new(f, b, l, c, p) ==
    /\ mode = "Focus"
    /\ focus = f
    /\ break_time = b
    /\ long_break = l
    /\ cycles = c
    /\ project = p
    /\ current_cycle = 1
    /\ remaining_secs = f * SECS_PER_MIN
    /\ running = FALSE
    /\ elapsed = 0
    /\ total_seconds = 0

\* the fields of the session an operation may change, and the two tables
Snapshot ==
    [mode |-> mode, current_cycle |-> current_cycle, remaining_secs |-> remaining_secs,
     running |-> running, project |-> project, elapsed |-> elapsed,
     db |-> db, config_table |-> config_table]

\* the stages of the closure notify() hands to thread::spawn: spawned, the file
\* is open, the source is decoded, the stream is open and the sink plays
Stages == {"spawned", "opened", "decoded", "playing"}

\* no notification thread is alive
NoThreads == [s \in Stages |-> 0]

\* history: nothing has happened yet
NoHistory ==
    [ticks |-> 0, focus_ticks |-> 0, counted |-> 0, focus_counted |-> 0,
     was_reset |-> FALSE, was_skipped |-> FALSE, trips |-> 0, awake |-> 0, ran |-> 0]

Init ==
    /\ \E f \in 1..MaxFocus, b \in 1..MaxBreak, l \in 1..MaxLongBreak, c \in 1..MaxCycles :
         \E pt \in 0..MaxLoaded : \E pf \in 0..pt :
            new(f, b, l, c, Project("none", pf, pt))
    /\ op = "new"
    /\ emitted = 0
    /\ threads = NoThreads
    /\ screen = <<>>
    /\ loaded = project
    /\ hist = NoHistory
    \* the session alone: no run loop, no table
    /\ is_project = FALSE
    /\ pc = "session"
    /\ db = <<>>
    /\ config_table = <<>>
    /\ cli = <<>>
    /\ config = <<>>
    /\ trace = <<>>
    /\ prev = Snapshot

\* next() as it would be if the Break arm forgot to count the cycle
next_BreakKeepsCycle ==
    CASE mode = "Focus" ->
            IF current_cycle = cycles
            THEN /\ mode' = "LongBreak"
                 /\ remaining_secs' = long_break * SECS_PER_MIN
                 /\ UNCHANGED current_cycle
            ELSE /\ mode' = "Break"
                 /\ remaining_secs' = break_time * SECS_PER_MIN
                 /\ UNCHANGED current_cycle
      [] mode = "Break" ->
            /\ UNCHANGED current_cycle
            /\ mode' = "Focus"
            /\ remaining_secs' = focus * SECS_PER_MIN
      [] mode = "LongBreak" ->
            /\ current_cycle' = 1
            /\ mode' = "Focus"
            /\ remaining_secs' = focus * SECS_PER_MIN

\* next() as it would be if the LongBreak arm forgot to restart the cycle
next_LongBreakKeepsCycle ==
    CASE mode = "Focus" ->
            IF current_cycle = cycles
            THEN /\ mode' = "LongBreak"
                 /\ remaining_secs' = long_break * SECS_PER_MIN
                 /\ UNCHANGED current_cycle
            ELSE /\ mode' = "Break"
                 /\ remaining_secs' = break_time * SECS_PER_MIN
                 /\ UNCHANGED current_cycle
      [] mode = "Break" ->
            /\ current_cycle' = current_cycle + 1
            /\ mode' = "Focus"
            /\ remaining_secs' = focus * SECS_PER_MIN
      [] mode = "LongBreak" ->
            /\ UNCHANGED current_cycle
            /\ mode' = "Focus"
            /\ remaining_secs' = focus * SECS_PER_MIN

\* next() as it would be if the cycle restarted on entering LongBreak
next_LongBreakEntryRestartsCycle ==
    CASE mode = "Focus" ->
            IF current_cycle = cycles
            THEN /\ mode' = "LongBreak"
                 /\ remaining_secs' = long_break * SECS_PER_MIN
                 /\ current_cycle' = 1
            ELSE /\ mode' = "Break"
                 /\ remaining_secs' = break_time * SECS_PER_MIN
                 /\ UNCHANGED current_cycle
      [] mode = "Break" ->
            /\ current_cycle' = current_cycle + 1
            /\ mode' = "Focus"
            /\ remaining_secs' = focus * SECS_PER_MIN
      [] mode = "LongBreak" ->
            /\ current_cycle' = 1
            /\ mode' = "Focus"
            /\ remaining_secs' = focus * SECS_PER_MIN

\* next() as it would be if the Focus arm did not test for the last cycle and
\* always went to Break
next_NoLongBreak ==
    CASE mode = "Focus" ->
            /\ mode' = "Break"
            /\ remaining_secs' = break_time * SECS_PER_MIN
            /\ UNCHANGED current_cycle
      [] mode = "Break" ->
            /\ current_cycle' = current_cycle + 1
            /\ mode' = "Focus"
            /\ remaining_secs' = focus * SECS_PER_MIN
      [] mode = "LongBreak" ->
            /\ current_cycle' = 1
            /\ mode' = "Focus"
            /\ remaining_secs' = focus * SECS_PER_MIN

\* Pomodoro::next: the transition table
next ==
    CASE mode = "Focus" ->
            IF current_cycle = cycles
            THEN /\ mode' = "LongBreak"
                 /\ remaining_secs' = long_break * SECS_PER_MIN
                 /\ UNCHANGED current_cycle
            ELSE /\ mode' = "Break"
                 /\ remaining_secs' = break_time * SECS_PER_MIN
                 /\ UNCHANGED current_cycle
      [] mode = "Break" ->
            /\ current_cycle' = current_cycle + 1
            /\ mode' = "Focus"
            /\ remaining_secs' = focus * SECS_PER_MIN
      [] mode = "LongBreak" ->
            /\ current_cycle' = 1
            /\ mode' = "Focus"
            /\ remaining_secs' = focus * SECS_PER_MIN

\* Pomodoro::notify: spawns one detached thread
notify ==
    /\ emitted' = 1
    /\ threads' = [threads EXCEPT !["spawned"] = @ + 1]
    /\ UNCHANGED screen

\* tick() as it would be if the phase ended with one second left
tick_EndsPhaseAtOne ==
    IF elapsed >= tick_rate
    THEN /\ IF running /\ remaining_secs > 1
            THEN /\ remaining_secs' = remaining_secs - 1
                 /\ total_seconds' = total_seconds + 1
                 /\ project' =
                      [project EXCEPT
                         !.total_seconds = @ + 1,
                         !.focus_seconds = IF mode = "Focus" THEN @ + 1 ELSE @]
                 /\ emitted' = 0 /\ UNCHANGED aside
                 /\ UNCHANGED <<mode, current_cycle>>
            ELSE IF running /\ remaining_secs <= 1
            THEN /\ notify
                 /\ next
                 /\ UNCHANGED <<project, total_seconds>>
            ELSE /\ emitted' = 0 /\ UNCHANGED aside
                 /\ UNCHANGED <<mode, current_cycle, remaining_secs, project, total_seconds>>
         /\ elapsed' = 0
    ELSE /\ emitted' = 0 /\ UNCHANGED aside
         /\ UNCHANGED <<mode, current_cycle, remaining_secs, project, total_seconds, elapsed>>

\* tick() as it would be if the countdown ignored the running flag
tick_IgnoresPause ==
    IF elapsed >= tick_rate
    THEN /\ IF remaining_secs > 0
            THEN /\ remaining_secs' = remaining_secs - 1
                 /\ total_seconds' = total_seconds + 1
                 /\ project' =
                      [project EXCEPT
                         !.total_seconds = @ + 1,
                         !.focus_seconds = IF mode = "Focus" THEN @ + 1 ELSE @]
                 /\ emitted' = 0 /\ UNCHANGED aside
                 /\ UNCHANGED <<mode, current_cycle>>
            ELSE IF running /\ remaining_secs = 0
            THEN /\ notify
                 /\ next
                 /\ UNCHANGED <<project, total_seconds>>
            ELSE /\ emitted' = 0 /\ UNCHANGED aside
                 /\ UNCHANGED <<mode, current_cycle, remaining_secs, project, total_seconds>>
         /\ elapsed' = 0
    ELSE /\ emitted' = 0 /\ UNCHANGED aside
         /\ UNCHANGED <<mode, current_cycle, remaining_secs, project, total_seconds, elapsed>>

\* tick() as it would be if focus_seconds grew in every phase
tick_CountsBreakAsFocus ==
    IF elapsed >= tick_rate
    THEN /\ IF running /\ remaining_secs > 0
            THEN /\ remaining_secs' = remaining_secs - 1
                 /\ total_seconds' = total_seconds + 1
                 /\ project' =
                      [project EXCEPT
                         !.total_seconds = @ + 1,
                         !.focus_seconds = @ + 1]
                 /\ emitted' = 0 /\ UNCHANGED aside
                 /\ UNCHANGED <<mode, current_cycle>>
            ELSE IF running /\ remaining_secs = 0
            THEN /\ notify
                 /\ next
                 /\ UNCHANGED <<project, total_seconds>>
            ELSE /\ emitted' = 0 /\ UNCHANGED aside
                 /\ UNCHANGED <<mode, current_cycle, remaining_secs, project, total_seconds>>
         /\ elapsed' = 0
    ELSE /\ emitted' = 0 /\ UNCHANGED aside
         /\ UNCHANGED <<mode, current_cycle, remaining_secs, project, total_seconds, elapsed>>

\* tick() as it would be if the project's total_seconds were not counted
tick_ForgetsTotal ==
    IF elapsed >= tick_rate
    THEN /\ IF running /\ remaining_secs > 0
            THEN /\ remaining_secs' = remaining_secs - 1
                 /\ total_seconds' = total_seconds + 1
                 /\ project' =
                      [project EXCEPT
                         !.total_seconds = @,
                         !.focus_seconds = IF mode = "Focus" THEN @ + 1 ELSE @]
                 /\ emitted' = 0 /\ UNCHANGED aside
                 /\ UNCHANGED <<mode, current_cycle>>
            ELSE IF running /\ remaining_secs = 0
            THEN /\ notify
                 /\ next
                 /\ UNCHANGED <<project, total_seconds>>
            ELSE /\ emitted' = 0 /\ UNCHANGED aside
                 /\ UNCHANGED <<mode, current_cycle, remaining_secs, project, total_seconds>>
         /\ elapsed' = 0
    ELSE /\ emitted' = 0 /\ UNCHANGED aside
         /\ UNCHANGED <<mode, current_cycle, remaining_secs, project, total_seconds, elapsed>>

\* tick() as it would be if the end of a phase spawned no notification
tick_Silent ==
    IF elapsed >= tick_rate
    THEN /\ IF running /\ remaining_secs > 0
            THEN /\ remaining_secs' = remaining_secs - 1
                 /\ total_seconds' = total_seconds + 1
                 /\ project' =
                      [project EXCEPT
                         !.total_seconds = @ + 1,
                         !.focus_seconds = IF mode = "Focus" THEN @ + 1 ELSE @]
                 /\ emitted' = 0 /\ UNCHANGED aside
                 /\ UNCHANGED <<mode, current_cycle>>
            ELSE IF running /\ remaining_secs = 0
            THEN /\ emitted' = 0 /\ UNCHANGED aside
                 /\ next
                 /\ UNCHANGED <<project, total_seconds>>
            ELSE /\ emitted' = 0 /\ UNCHANGED aside
                 /\ UNCHANGED <<mode, current_cycle, remaining_secs, project, total_seconds>>
         /\ elapsed' = 0
    ELSE /\ emitted' = 0 /\ UNCHANGED aside
         /\ UNCHANGED <<mode, current_cycle, remaining_secs, project, total_seconds, elapsed>>

\* tick() as it would be if the tick that ends a phase were counted as a second
tick_CountsCompletion ==
    IF elapsed >= tick_rate
    THEN /\ IF running /\ remaining_secs > 0
            THEN /\ remaining_secs' = remaining_secs - 1
                 /\ total_seconds' = total_seconds + 1
                 /\ project' =
                      [project EXCEPT
                         !.total_seconds = @ + 1,
                         !.focus_seconds = IF mode = "Focus" THEN @ + 1 ELSE @]
                 /\ emitted' = 0 /\ UNCHANGED aside
                 /\ UNCHANGED <<mode, current_cycle>>
            ELSE IF running /\ remaining_secs = 0
            THEN /\ notify
                 /\ next
                 /\ total_seconds' = total_seconds + 1
                 /\ project' =
                      [project EXCEPT
                         !.total_seconds = @ + 1,
                         !.focus_seconds = IF mode = "Focus" THEN @ + 1 ELSE @]
            ELSE /\ emitted' = 0 /\ UNCHANGED aside
                 /\ UNCHANGED <<mode, current_cycle, remaining_secs, project, total_seconds>>
         /\ elapsed' = 0
    ELSE /\ emitted' = 0 /\ UNCHANGED aside
         /\ UNCHANGED <<mode, current_cycle, remaining_secs, project, total_seconds, elapsed>>

\* Pomodoro::tick
tick ==
    IF elapsed >= tick_rate
    THEN /\ IF running /\ remaining_secs > 0
            THEN /\ remaining_secs' = remaining_secs - 1
                 /\ total_seconds' = total_seconds + 1
                 /\ project' =
                      [project EXCEPT
                         !.total_seconds = @ + 1,
                         !.focus_seconds = IF mode = "Focus" THEN @ + 1 ELSE @]
                 /\ emitted' = 0 /\ UNCHANGED aside
                 /\ UNCHANGED <<mode, current_cycle>>
            ELSE IF running /\ remaining_secs = 0
            THEN /\ notify
                 /\ next
                 /\ UNCHANGED <<project, total_seconds>>
            ELSE /\ emitted' = 0 /\ UNCHANGED aside
                 /\ UNCHANGED <<mode, current_cycle, remaining_secs, project, total_seconds>>
         /\ elapsed' = 0
    ELSE /\ emitted' = 0 /\ UNCHANGED aside
         /\ UNCHANGED <<mode, current_cycle, remaining_secs, project, total_seconds, elapsed>>

\* Pomodoro::reset
reset ==
    /\ current_cycle' = 0
    /\ mode' = "Focus"
    /\ remaining_secs' = focus * SECS_PER_MIN
    /\ running' = FALSE

\* Pomodoro::toggle
toggle == running' = ~running

\* the configured length of the current phase, in seconds
PhaseSecs ==
    CASE mode = "Focus" -> focus * SECS_PER_MIN
      [] mode = "Break" -> break_time * SECS_PER_MIN
      [] mode = "LongBreak" -> long_break * SECS_PER_MIN

\* the countdown of the current phase has started and has not ended
MidCountdown == remaining_secs # 0 /\ remaining_secs # PhaseSecs

\* the model's bound on when reset and skip are issued
Command == MidCountdown => hist.counted < MaxEarly

\* a tick() call at least tick_rate after the last one, made while running
Due == elapsed >= tick_rate /\ running

\* history of a phase change: a Focus -> Break -> Focus round trip ends when Break is
\* left; the count restarts when LongBreak is left
Tripped ==
    CASE mode = "Break" -> hist.trips + 1
      [] mode = "LongBreak" -> 0
      [] OTHER -> hist.trips

\* tick() as it would be if it joined the notification threads before it went on
Tick_JoinsThreads ==
    /\ threads = NoThreads
    /\ (Due /\ remaining_secs > 0) => hist.counted < MaxSeconds
    /\ tick
    /\ op' = "tick"
    /\ prev' = Snapshot
    /\ hist' = [hist EXCEPT
                  !.ticks = IF Due THEN @ + 1 ELSE @,
                  !.focus_ticks = IF Due /\ mode = "Focus" THEN @ + 1 ELSE @,
                  !.counted = IF Due /\ remaining_secs > 0 THEN @ + 1 ELSE @,
                  !.focus_counted =
                      IF Due /\ remaining_secs > 0 /\ mode = "Focus" THEN @ + 1 ELSE @,
                  !.trips = IF Due /\ remaining_secs = 0 THEN Tripped ELSE @,
                  !.awake = IF elapsed >= tick_rate THEN 0 ELSE @,
                  !.ran = IF elapsed >= tick_rate THEN hist.awake ELSE @]
    /\ UNCHANGED <<settings, running, loaded, program>>

\* a call of tick() by the owner of the session
Tick ==
    /\ (Due /\ remaining_secs > 0) => hist.counted < MaxSeconds
    /\ tick
    /\ op' = "tick"
    /\ prev' = Snapshot
    /\ hist' = [hist EXCEPT
                  !.ticks = IF Due THEN @ + 1 ELSE @,
                  !.focus_ticks = IF Due /\ mode = "Focus" THEN @ + 1 ELSE @,
                  !.counted = IF Due /\ remaining_secs > 0 THEN @ + 1 ELSE @,
                  !.focus_counted =
                      IF Due /\ remaining_secs > 0 /\ mode = "Focus" THEN @ + 1 ELSE @,
                  !.trips = IF Due /\ remaining_secs = 0 THEN Tripped ELSE @,
                  !.awake = IF elapsed >= tick_rate THEN 0 ELSE @,
                  !.ran = IF elapsed >= tick_rate THEN hist.awake ELSE @]
    /\ UNCHANGED <<settings, running, loaded, program>>

\* reset() as it would be if it also cleared the counters of the project
Reset_ClearsCounters ==
    /\ Command
    /\ reset
    /\ project' = [project EXCEPT !.focus_seconds = 0, !.total_seconds = 0]
    /\ op' = "reset"
    /\ emitted' = 0 /\ UNCHANGED aside
    /\ prev' = Snapshot
    /\ hist' = [hist EXCEPT !.was_reset = TRUE, !.trips = 0, !.awake = 0]
    /\ UNCHANGED <<settings, elapsed, total_seconds, loaded, program>>

\* a call of reset()
Reset ==
    /\ Command
    /\ reset
    /\ op' = "reset"
    /\ emitted' = 0 /\ UNCHANGED aside
    /\ prev' = Snapshot
    /\ hist' = [hist EXCEPT !.was_reset = TRUE, !.trips = 0, !.awake = 0]
    /\ UNCHANGED <<settings, project, elapsed, total_seconds, loaded, program>>

\* skip as it would be if it also paused the timer
Skip_Pauses ==
    /\ Command
    /\ next
    /\ running' = FALSE
    /\ op' = "skip"
    /\ emitted' = 0 /\ UNCHANGED aside
    /\ prev' = Snapshot
    /\ hist' = [hist EXCEPT !.was_skipped = TRUE, !.trips = Tripped]
    /\ UNCHANGED <<settings, project, elapsed, total_seconds, loaded, program>>

\* skip: a call of next() with no notify()
Skip ==
    /\ Command
    /\ next
    /\ op' = "skip"
    /\ emitted' = 0 /\ UNCHANGED aside
    /\ prev' = Snapshot
    /\ hist' = [hist EXCEPT !.was_skipped = TRUE, !.trips = Tripped]
    /\ UNCHANGED <<settings, project, running, elapsed, total_seconds, loaded, program>>

\* a call of toggle()
Toggle ==
    /\ toggle
    /\ op' = "toggle"
    /\ emitted' = 0 /\ UNCHANGED aside
    /\ prev' = Snapshot
    /\ hist' = [hist EXCEPT !.awake = 0]
    /\ UNCHANGED <<settings, mode, project, current_cycle, remaining_secs, elapsed,
                   total_seconds, loaded, program>>

\* the clock: a second passes since last_tick
Advance ==
    /\ elapsed < tick_rate
    /\ elapsed' = elapsed + 1
    /\ op' = "advance"
    /\ emitted' = 0 /\ UNCHANGED aside
    /\ prev' = Snapshot
    /\ UNCHANGED <<settings, mode, project, current_cycle, remaining_secs, running,
                   total_seconds, loaded, hist, program>>

Next == Tick \/ Reset \/ Skip \/ Toggle \/ Advance

Spec == Init /\ [][Next]_vars

\* the session of pomodoro.rs under a loop that keeps calling tick() while the
\* clock runs: the run loop calls tick on every iteration (main.rs 605-608) and
\* no iteration blocks for longer than the poll's timeout (571-573)
SpecLive == Init /\ [][Next]_vars /\ WF_vars(Tick) /\ WF_vars(Advance)

\* the clock with the seconds after the first one told apart: a second passes
\* since last_tick, up to MaxLate of them. hist.awake counts the seconds of the
\* interval since the last tick over which running has stayed true; hist.ran is
\* that count for the interval the last tick ended.
Clock ==
    /\ elapsed < MaxLate
    /\ elapsed' = elapsed + 1
    /\ op' = "clock"
    /\ emitted' = 0 /\ UNCHANGED aside
    /\ prev' = Snapshot
    /\ hist' = [hist EXCEPT !.awake = IF running THEN @ + 1 ELSE @]
    /\ UNCHANGED <<settings, mode, project, current_cycle, remaining_secs, running,
                   total_seconds, loaded, program>>

LateNext == Tick \/ Reset \/ Skip \/ Toggle \/ Clock

\* the session of pomodoro.rs under a caller that may call tick() late
SpecLate == Init /\ [][LateNext]_vars

\* the stage a notification thread reaches from stage s when its step succeeds
after(s) ==
    CASE s = "spawned" -> "opened"
      [] s = "opened" -> "decoded"
      [] s = "decoded" -> "playing"

\* a step of the closure of a notification thread: File::open, Decoder::new and
\* open_default_stream each return Ok, and the thread goes on, or Err, and the
\* closure returns (`if let Ok`, no else); sleep_until_end returns when the sound
\* has been played. The closure captures nothing: it names no field of the session.
NotifyThread ==
    /\ \E s \in Stages :
         /\ threads[s] > 0
         /\ \E ok \in BOOLEAN :
              threads' =
                 IF ok /\ s # "playing"
                 THEN [threads EXCEPT ![s] = @ - 1, ![after(s)] = @ + 1]
                 ELSE [threads EXCEPT ![s] = @ - 1]
    /\ op' = "thread"
    /\ emitted' = 0
    /\ prev' = Snapshot
    /\ UNCHANGED <<session, settings, loaded, hist, program, screen>>

NotifyNext == Tick \/ Reset \/ Skip \/ Toggle \/ Advance \/ NotifyThread

\* the session of pomodoro.rs together with the notification threads it spawns
SpecNotify == Init /\ [][NotifyNext]_vars

\* ------------------------------------------------- the program of main.rs

\* main.rs Project::new / a row of its projects table: name, seconds
MainProject(n, secs) == [name |-> n, seconds |-> secs]

\* main.rs Pomodoro::new
main_new(f, b, l, c, p) ==
    /\ mode = "Focus"
    /\ focus = f
    /\ break_time = b
    /\ long_break = l
    /\ cycles = c
    /\ project = p
    /\ current_cycle = 1
    /\ remaining_secs = f * SECS_PER_MIN
    /\ running = FALSE

\* main.rs Pomodoro::next: the same text as Pomodoro::next of pomodoro.rs
main_next == next

\* main.rs Pomodoro::notify: the same text as Pomodoro::notify of pomodoro.rs
main_notify == notify

\* main.rs Pomodoro::toggle
main_toggle == running' = ~running

\* main.rs Pomodoro::tick
main_tick ==
    IF running /\ remaining_secs > 0
    THEN /\ remaining_secs' = remaining_secs - 1
         /\ project' = [project EXCEPT !.seconds = IF mode = "Focus" THEN @ + 1 ELSE @]
         /\ emitted' = 0 /\ UNCHANGED aside
         /\ UNCHANGED <<mode, current_cycle>>
    ELSE IF running /\ remaining_secs = 0
    THEN /\ main_notify
         /\ main_next
         /\ UNCHANGED project
    ELSE /\ emitted' = 0 /\ UNCHANGED aside
         /\ UNCHANGED <<mode, current_cycle, remaining_secs, project>>

\* main.rs Pomodoro::reset
main_reset ==
    /\ remaining_secs' = focus * SECS_PER_MIN
    /\ running' = FALSE

\* history: no table has been written in this run
NoTrace ==
    [config_inserts |-> 0, config_updates |-> 0, project_inserts |-> 0,
     project_updates |-> 0]

\* main.rs Project::update as it would be without its WHERE clause
main_update_AllRows ==
    /\ db' = [n \in DOMAIN db |-> project.seconds]
    /\ trace' = [trace EXCEPT !.project_updates = @ + 1]

\* main.rs Project::update: UPDATE projects SET name, seconds WHERE name
main_update ==
    /\ db' = IF project.name \in DOMAIN db
             THEN [db EXCEPT ![project.name] = project.seconds]
             ELSE db
    /\ trace' = [trace EXCEPT !.project_updates = @ + 1]

\* Cli with no flag given
NoFlags ==
    [focus |-> <<>>, break_time |-> <<>>, long_break |-> <<>>, cycles |-> <<>>,
     project |-> <<>>]

\* main: the state when the run loop is entered
MainInit ==
    /\ \E f \in 1..MaxFocus, b \in 1..MaxBreak, l \in 1..MaxLongBreak, c \in 1..MaxCycles :
         \* the stored row of the project holds MaxLoaded seconds
         main_new(f, b, l, c, MainProject("none", MaxLoaded))
    /\ elapsed = 0
    /\ total_seconds = 0
    /\ is_project = FALSE
    /\ pc = "poll"
    /\ db = [n \in {project.name} |-> project.seconds]
    \* the tables hold the rows the session was built from
    /\ config = [focus |-> focus, break_time |-> break_time, long_break |-> long_break,
                 cycles |-> cycles]
    /\ config_table = [id \in {1} |-> config]
    /\ cli = NoFlags
    /\ trace = NoTrace
    /\ op = "new"
    /\ emitted = 0
    /\ threads = NoThreads
    /\ screen = <<>>
    /\ loaded = project
    /\ hist = NoHistory
    /\ prev = Snapshot

Keys == {"space", "r", "s", "q", "esc", "ctrl_c", "ctrl_x", "p", "other"}

\* main: the 'p' arm as it would be if it saved the project too
view_switch_Autosaves ==
    /\ is_project' = ~is_project
    /\ running' = FALSE
    /\ main_update

\* main: the 'p' arm as it would be if it left the session running
view_switch_KeepsRunning ==
    /\ is_project' = ~is_project
    /\ UNCHANGED <<running, db, trace>>

\* main: the 'p' arm of the second match
view_switch ==
    /\ is_project' = ~is_project
    /\ running' = FALSE
    /\ UNCHANGED <<db, trace>>

\* main: the first match as it would be without `if !is_project`
in_timer_Always == TRUE

\* main: `if !is_project`, the guard of the first match (space, r, s)
in_timer == ~is_project

\* main: the quit arms of the second match: q, Esc, Ctrl-C, Ctrl-X
quit ==
    /\ main_update
    /\ pc' = "done"

\* main: event::poll returned true and the event is a press of key k
KeyPress(k) ==
    /\ pc = "poll"
    /\ prev' = Snapshot
    /\ emitted' = 0 /\ UNCHANGED aside
    /\ IF in_timer /\ k = "space"
       THEN /\ main_toggle
            /\ op' = "toggle"
            /\ UNCHANGED <<mode, current_cycle, remaining_secs, hist, is_project, db, trace>>
            /\ pc' = "check"
       ELSE IF in_timer /\ k = "r"
       THEN /\ Command
            /\ main_reset
            /\ op' = "reset"
            /\ hist' = [hist EXCEPT !.was_reset = TRUE, !.trips = 0]
            /\ UNCHANGED <<mode, current_cycle, is_project, db, trace>>
            /\ pc' = "check"
       ELSE IF in_timer /\ k = "s"
       THEN /\ Command
            /\ main_next
            /\ op' = "skip"
            /\ hist' = [hist EXCEPT !.was_skipped = TRUE, !.trips = Tripped]
            /\ UNCHANGED <<running, is_project, db, trace>>
            /\ pc' = "check"
       ELSE IF k \in {"q", "esc", "ctrl_c", "ctrl_x"}
       THEN /\ quit
            /\ op' = "quit"
            /\ UNCHANGED <<mode, current_cycle, remaining_secs, running, hist, is_project>>
       ELSE IF k = "p"
       THEN /\ view_switch
            /\ op' = "view"
            /\ pc' = "check"
            /\ UNCHANGED <<mode, current_cycle, remaining_secs, hist>>
       \* no arm takes the key: op records which key it was
       ELSE /\ op' = k
            /\ pc' = "check"
            /\ UNCHANGED <<mode, current_cycle, remaining_secs, running, hist, is_project,
                           db, trace>>
    /\ UNCHANGED <<settings, project, elapsed, total_seconds, loaded, config_table, cli,
                   config>>

\* main: event::poll returned false: its timeout, the rest of the second, is over
PollTimeout ==
    /\ pc = "poll"
    /\ elapsed >= tick_rate
    /\ pc' = "check"
    /\ op' = "timeout"
    /\ emitted' = 0 /\ UNCHANGED aside
    /\ prev' = Snapshot
    /\ UNCHANGED <<session, settings, loaded, hist, is_project, db, startup>>

\* main: the end of a loop iteration as it would be if the tick were made only
\* when the poll had timed out, so that an iteration that handled a key made none
TickCheck_OnlyAfterTimeout ==
    /\ pc = "check"
    /\ pc' = "poll"
    /\ prev' = Snapshot
    /\ IF elapsed >= tick_rate /\ op = "timeout"
       THEN /\ (running /\ remaining_secs > 0) => hist.counted < MaxSeconds
            /\ main_tick
            /\ elapsed' = 0
            /\ op' = "tick"
            /\ hist' = [hist EXCEPT
                          !.ticks = IF running THEN @ + 1 ELSE @,
                          !.focus_ticks = IF running /\ mode = "Focus" THEN @ + 1 ELSE @,
                          !.counted = IF running /\ remaining_secs > 0 THEN @ + 1 ELSE @,
                          !.focus_counted =
                              IF running /\ remaining_secs > 0 /\ mode = "Focus"
                              THEN @ + 1 ELSE @,
                          !.trips = IF running /\ remaining_secs = 0 THEN Tripped ELSE @]
       ELSE /\ op' = "idle"
            /\ emitted' = 0 /\ UNCHANGED aside
            /\ UNCHANGED <<mode, current_cycle, remaining_secs, project, elapsed, hist>>
    /\ UNCHANGED <<settings, running, total_seconds, loaded, is_project, db, startup>>

\* main: the end of a loop iteration: tick when a second has passed since last_tick
TickCheck ==
    /\ pc = "check"
    /\ pc' = "poll"
    /\ prev' = Snapshot
    /\ IF elapsed >= tick_rate
       THEN /\ (running /\ remaining_secs > 0) => hist.counted < MaxSeconds
            /\ main_tick
            /\ elapsed' = 0
            /\ op' = "tick"
            /\ hist' = [hist EXCEPT
                          !.ticks = IF running THEN @ + 1 ELSE @,
                          !.focus_ticks = IF running /\ mode = "Focus" THEN @ + 1 ELSE @,
                          !.counted = IF running /\ remaining_secs > 0 THEN @ + 1 ELSE @,
                          !.focus_counted =
                              IF running /\ remaining_secs > 0 /\ mode = "Focus"
                              THEN @ + 1 ELSE @,
                          !.trips = IF running /\ remaining_secs = 0 THEN Tripped ELSE @]
       ELSE /\ op' = "idle"
            /\ emitted' = 0 /\ UNCHANGED aside
            /\ UNCHANGED <<mode, current_cycle, remaining_secs, project, elapsed, hist>>
    /\ UNCHANGED <<settings, running, total_seconds, loaded, is_project, db, startup>>

\* main: terminal.draw, event::poll or event::read returns Err, and `?` returns it
\* from main
IoError ==
    /\ pc = "poll"
    /\ pc' = "failed"
    /\ op' = "error"
    /\ emitted' = 0 /\ UNCHANGED aside
    /\ prev' = Snapshot
    /\ UNCHANGED <<session, settings, loaded, hist, is_project, db, startup>>

\* main: the clock, while the loop runs
MainAdvance ==
    /\ pc \in {"poll", "check"}
    /\ elapsed < tick_rate
    /\ elapsed' = elapsed + 1
    /\ op' = "advance"
    /\ emitted' = 0 /\ UNCHANGED aside
    /\ prev' = Snapshot
    /\ UNCHANGED <<settings, mode, project, current_cycle, remaining_secs, running,
                   total_seconds, loaded, hist, program>>

MainNext ==
    \/ \E k \in Keys : KeyPress(k)
    \/ PollTimeout
    \/ TickCheck
    \/ IoError
    \/ MainAdvance

SpecMain == MainInit /\ [][MainNext]_vars

\* ------------------------------------- the startup of main.rs, run after run
\* SpecStartup: main() from the start of the process to the run loop, over the
\* tables the earlier runs left. The run loop is taken from the tables' side: it
\* counts seconds into the session's project, and it ends by a quit key, which
\* saves the project, or by an error, which does not.

\* Option<T>
Option(S) == {<<>>} \cup {<<v>> : v \in S}

\* Option::is_some
is_some(o) == Len(o) = 1

\* Option::unwrap
unwrap(o) == o[1]

\* project names given on the command line
Names == {"none", "widget"}

\* values of the u32 flags given on the command line
FlagValues == {0, MaxFlag}

\* Cli::parse: every flag is optional
CliArgs ==
    [focus : Option(FlagValues), break_time : Option(FlagValues),
     long_break : Option(FlagValues), cycles : Option(FlagValues),
     project : Option(Names)]

\* main.rs Config::new; the id column is the key of config_table
Config_new(f, b, l, c) == [focus |-> f, break_time |-> b, long_break |-> l, cycles |-> c]

\* init_db: Config::new(25, 5, 15, 4)
DefaultConfig == Config_new(25, 5, 15, 4)

\* main.rs Config::insert: the row gets the next AUTOINCREMENT id
config_insert(c) ==
    /\ config_table' =
          [id \in DOMAIN config_table \cup {Cardinality(DOMAIN config_table) + 1} |->
              IF id \in DOMAIN config_table THEN config_table[id] ELSE c]
    /\ trace' = [trace EXCEPT !.config_inserts = @ + 1]

\* main.rs Config::update: UPDATE config SET ... WHERE id = 1
config_update(c) ==
    /\ config_table' = [id \in DOMAIN config_table |->
                           IF id = 1 THEN c ELSE config_table[id]]
    /\ trace' = [trace EXCEPT !.config_updates = @ + 1]

\* main.rs Project::insert
project_insert(p) ==
    /\ p.name \notin DOMAIN db
    /\ db' = [n \in DOMAIN db \cup {p.name} |-> IF n = p.name THEN p.seconds ELSE db[n]]
    /\ trace' = [trace EXCEPT !.project_inserts = @ + 1]

\* get_by_name as it would be if it returned a fresh record for the name
get_by_name_Fresh(n) == MainProject(n, 0)

\* main.rs Project::get_by_name, when a row has the name
get_by_name(n) == MainProject(n, db[n])

\* init_db as it would be if it seeded the config on every start
seed_needed_Always == TRUE

\* init_db: `if count.0 == 0` over SELECT COUNT(*) FROM config
seed_needed == Cardinality(DOMAIN config_table) = 0

\* init_db as it would be if it never inserted the project "none"
none_needed_Never == FALSE

\* init_db: `if count.0 == 0` over SELECT COUNT(*) FROM projects
none_needed == Cardinality(DOMAIN db) = 0

\* main as it would be if the focus flag were written to cycles in place of the
\* cycles flag
override_CyclesFromFocus(c) ==
    [focus |-> IF is_some(cli.focus) THEN unwrap(cli.focus) ELSE c.focus,
     break_time |-> IF is_some(cli.break_time) THEN unwrap(cli.break_time) ELSE c.break_time,
     long_break |-> IF is_some(cli.long_break) THEN unwrap(cli.long_break) ELSE c.long_break,
     cycles |-> IF is_some(cli.focus) THEN unwrap(cli.focus) ELSE c.cycles]

\* main: the four `if cli.<flag>.is_some()` assignments to config
override(c) ==
    [focus |-> IF is_some(cli.focus) THEN unwrap(cli.focus) ELSE c.focus,
     break_time |-> IF is_some(cli.break_time) THEN unwrap(cli.break_time) ELSE c.break_time,
     long_break |-> IF is_some(cli.long_break) THEN unwrap(cli.long_break) ELSE c.long_break,
     cycles |-> IF is_some(cli.cycles) THEN unwrap(cli.cycles) ELSE c.cycles]

\* main: the condition of the override block
any_flag ==
    \/ is_some(cli.focus)
    \/ is_some(cli.break_time)
    \/ is_some(cli.long_break)
    \/ is_some(cli.cycles)

\* history: the tables and main's locals before an operation of the startup
Before == [db |-> db, config_table |-> config_table, config |-> config, project |-> project]

\* the process has started: the tables are empty, main has no locals yet
StartupInit ==
    /\ db = <<>>
    /\ config_table = <<>>
    /\ cli \in CliArgs
    /\ config = <<>>
    /\ trace = NoTrace
    /\ pc = "start"
    /\ mode = "Focus"
    /\ focus = 0
    /\ break_time = 0
    /\ long_break = 0
    /\ cycles = 0
    /\ project = MainProject("none", 0)
    /\ current_cycle = 0
    /\ remaining_secs = 0
    /\ running = FALSE
    /\ elapsed = 0
    /\ total_seconds = 0
    /\ is_project = FALSE
    /\ op = "start"
    /\ emitted = 0
    /\ threads = NoThreads
    /\ screen = <<>>
    /\ prev = Before
    /\ loaded = project
    /\ hist = NoHistory

\* init_db: the config table and its seed
InitConfig ==
    /\ pc = "start"
    /\ IF seed_needed
       THEN config_insert(DefaultConfig)
       ELSE UNCHANGED <<config_table, trace>>
    /\ pc' = "seeded"
    /\ op' = "init_config"
    /\ prev' = Before
    /\ UNCHANGED <<session, settings, emitted, aside, loaded, hist, is_project, db, cli, config>>

\* init_db: the projects table and its project "none"
InitProjects ==
    /\ pc = "seeded"
    /\ IF none_needed
       THEN project_insert(MainProject("none", 0))
       ELSE UNCHANGED <<db, trace>>
    /\ pc' = "config"
    /\ op' = "init_projects"
    /\ prev' = Before
    /\ UNCHANGED <<session, settings, emitted, aside, loaded, hist, is_project, config_table, cli,
                   config>>

\* main: Config::get_all and the override by the flags
LoadConfig ==
    /\ pc = "config"
    /\ 1 \in DOMAIN config_table
    /\ config' = override(config_table[1])
    /\ IF any_flag
       THEN config_update(config')
       ELSE UNCHANGED <<config_table, trace>>
    /\ pc' = "project"
    /\ op' = "config"
    /\ prev' = Before
    /\ UNCHANGED <<session, settings, emitted, aside, loaded, hist, is_project, db, cli>>

\* main: the project of the session, "none" or the one the --project flag names
LoadProject ==
    /\ pc = "project"
    /\ "none" \in DOMAIN db
    /\ IF is_some(cli.project)
       THEN IF unwrap(cli.project) \in DOMAIN db
            THEN /\ project' = get_by_name(unwrap(cli.project))
                 /\ UNCHANGED <<db, trace>>
            ELSE /\ project' = MainProject(unwrap(cli.project), 0)
                 /\ project_insert(project')
       ELSE /\ project' = get_by_name("none")
            /\ UNCHANGED <<db, trace>>
    /\ pc' = "session"
    /\ op' = "project"
    /\ prev' = Before
    /\ UNCHANGED <<mode, current_cycle, remaining_secs, running, elapsed, total_seconds,
                   settings, emitted, aside, loaded, hist, is_project, config_table, cli, config>>

\* Pomodoro::new as it would be if it started from a fresh record of the
\* project's name in place of the loaded one
Build_FreshRecord ==
    /\ pc = "session"
    /\ mode' = "Focus"
    /\ focus' = config.focus
    /\ break_time' = config.break_time
    /\ long_break' = config.long_break
    /\ cycles' = config.cycles
    /\ current_cycle' = 1
    /\ remaining_secs' = config.focus * SECS_PER_MIN
    /\ running' = FALSE
    /\ elapsed' = 0
    /\ is_project' = FALSE
    /\ project' = MainProject(project.name, 0)
    /\ loaded' = project'
    /\ pc' = "poll"
    /\ op' = "new"
    /\ prev' = Before
    /\ UNCHANGED <<total_seconds, emitted, aside, hist, db, startup>>

\* main: Pomodoro::new from config and project, then the locals of the run loop
Build ==
    /\ pc = "session"
    /\ mode' = "Focus"
    /\ focus' = config.focus
    /\ break_time' = config.break_time
    /\ long_break' = config.long_break
    /\ cycles' = config.cycles
    /\ current_cycle' = 1
    /\ remaining_secs' = config.focus * SECS_PER_MIN
    /\ running' = FALSE
    /\ elapsed' = 0
    /\ is_project' = FALSE
    /\ loaded' = project
    /\ pc' = "poll"
    /\ op' = "new"
    /\ prev' = Before
    /\ UNCHANGED <<project, total_seconds, emitted, aside, hist, db, startup>>

\* the run loop from the tables' side: a second of Focus is counted into the
\* session's project
Accrue ==
    /\ pc = "poll"
    /\ project.seconds < MaxStored
    /\ project' = [project EXCEPT !.seconds = @ + 1]
    /\ op' = "tick"
    /\ prev' = Before
    /\ UNCHANGED <<mode, current_cycle, remaining_secs, running, elapsed, total_seconds,
                   settings, emitted, aside, loaded, hist, program>>

\* the run loop from the tables' side: a quit key
Quit == \E k \in {"q", "esc", "ctrl_c", "ctrl_x"} : KeyPress(k)

\* a `?` of the startup returns an Err from main
StartupError ==
    /\ pc \in {"start", "seeded", "config", "project", "session"}
    /\ pc' = "failed"
    /\ op' = "error"
    /\ prev' = Before
    /\ UNCHANGED <<session, settings, emitted, aside, loaded, hist, is_project, db, startup>>

\* main has returned: the process ends and only the tables are left
Exit ==
    /\ pc \in {"done", "failed"}
    /\ pc' = "exited"
    /\ cli' = NoFlags
    /\ config' = <<>>
    /\ trace' = NoTrace
    /\ mode' = "Focus"
    /\ focus' = 0
    /\ break_time' = 0
    /\ long_break' = 0
    /\ cycles' = 0
    /\ project' = MainProject("none", 0)
    /\ current_cycle' = 0
    /\ remaining_secs' = 0
    /\ running' = FALSE
    /\ elapsed' = 0
    /\ is_project' = FALSE
    /\ op' = "exit"
    /\ prev' = [db |-> db, config_table |-> config_table, config |-> <<>>,
                project |-> MainProject("none", 0)]
    /\ loaded' = MainProject("none", 0)
    /\ UNCHANGED <<total_seconds, emitted, aside, hist, db, config_table>>

\* the program is started again, over the tables the last run left
Start ==
    /\ pc = "exited"
    /\ cli' \in CliArgs
    /\ pc' = "start"
    /\ op' = "start"
    /\ prev' = Before
    /\ UNCHANGED <<session, settings, emitted, aside, loaded, hist, is_project, db, config_table,
                   config, trace>>

StartupNext ==
    \/ InitConfig
    \/ InitProjects
    \/ LoadConfig
    \/ LoadProject
    \/ Build
    \/ Accrue
    \/ Quit
    \/ IoError
    \/ StartupError
    \/ Exit
    \/ Start

SpecStartup == StartupInit /\ [][StartupNext]_vars

\* -------------------------------------------------- the texts of the display
\* A text is the sequence of its characters.

\* the seconds a countdown is drawn at: every value up to MaxShown and the
\* values around the first countdowns of ten and of a hundred minutes
ShownSecs == 0..MaxShown \cup {599, 600, 5999, 6000}

\* the values of a project's counters the overview is drawn at: around a minute,
\* an hour, ten hours and a hundred hours
Counters == {0, 5, 59, 60, 65, 3599, 3600, 3661, 35999, 36000, 359999, 360000}

\* the character of a decimal digit
Digit(d) ==
    CASE d = 0 -> "0" [] d = 1 -> "1" [] d = 2 -> "2" [] d = 3 -> "3" [] d = 4 -> "4"
      [] d = 5 -> "5" [] d = 6 -> "6" [] d = 7 -> "7" [] d = 8 -> "8" [] d = 9 -> "9"

RECURSIVE Decimal(_)
\* format!("{}", n) of a u32
Decimal(n) == IF n < 10 THEN <<Digit(n)>> ELSE Decimal(n \div 10) \o <<Digit(n % 10)>>

\* format!("{:02}", n) as it would be with "{}" for "{:02}"
Pad2_Unpadded(n) == Decimal(n)

\* format!("{:02}", n) of a u32: a minimum width of two, filled with zeros
Pad2(n) == IF n < 10 THEN <<"0">> \o Decimal(n) ELSE Decimal(n)

\* format_time
format_time(secs) ==
    LET mins == secs \div 60
        secs_ == secs % 60
    IN  Pad2(mins) \o <<":">> \o Pad2(secs_)

\* Project::ui: time_str and total_time_str of a counter
time_str(counter) ==
    LET hours == counter \div 3600
        minutes == (counter % 3600) \div 60
        seconds == counter % 60
    IN  IF hours > 0
        THEN Decimal(hours) \o <<"h", " ">> \o Pad2(minutes) \o <<"m", " ">>
                \o Pad2(seconds) \o <<"s">>
        ELSE Decimal(minutes) \o <<"m", " ">> \o Pad2(seconds) \o <<"s">>

\* a session in the middle of a focus of a hundred minutes, for a project with
\* counters from Counters; nothing is drawn yet
FormatInit ==
    /\ mode = "Focus"
    /\ focus = 100
    /\ break_time = 5
    /\ long_break = 15
    /\ cycles = 4
    /\ \E pt \in Counters : \E pf \in {c \in Counters : c <= pt} :
          project = Project("none", pf, pt)
    /\ current_cycle = 1
    /\ remaining_secs \in ShownSecs
    /\ running = FALSE
    /\ elapsed = 0
    /\ total_seconds = 0
    /\ op = "new"
    /\ emitted = 0
    /\ threads = NoThreads
    /\ screen = <<>>
    /\ loaded = project
    /\ hist = NoHistory
    /\ is_project = FALSE
    /\ pc = "session"
    /\ db = <<>>
    /\ config_table = <<>>
    /\ cli = <<>>
    /\ config = <<>>
    /\ trace = <<>>
    /\ prev = Snapshot

\* Pomodoro::ui: the countdown is drawn
DrawTimer ==
    /\ screen' = [timer |-> format_time(remaining_secs)]
    /\ op' = "draw"
    /\ emitted' = 0
    /\ prev' = Snapshot
    /\ UNCHANGED <<session, settings, loaded, hist, program, threads>>

\* Project::ui: the line of the project in the overview is drawn
DrawOverview ==
    /\ screen' = [focus |-> time_str(project.focus_seconds),
                  total |-> time_str(project.total_seconds)]
    /\ op' = "overview"
    /\ emitted' = 0
    /\ prev' = Snapshot
    /\ UNCHANGED <<session, settings, loaded, hist, program, threads>>

FormatNext == DrawTimer \/ DrawOverview

SpecFormat == FormatInit /\ [][FormatNext]_vars

\* ------------------------------------------------------------------ claims

\* the last operation ended a phase: a skip, or a due tick made while running with
\* nothing left on the countdown
PhaseChanged ==
    \/ op = "skip"
    \/ /\ op = "tick"
       /\ prev.running
       /\ prev.elapsed >= tick_rate
       /\ prev.remaining_secs = 0

\* no reset and no skip so far: phases ended only by the countdown
OnlyTicks == ~hist.was_reset /\ ~hist.was_skipped

\* C1 as claimed: with positive settings and no reset, LongBreak is entered after
\* exactly `cycles` Focus -> Break -> Focus round trips and one more Focus.
C1_RoundTripsEqualCycles ==
    (~hist.was_reset /\ mode = "LongBreak") => hist.trips = cycles

\* C1 as amended: with positive settings and no reset, a session that starts in Focus
\* at cycle 1 makes exactly cycles - 1 Focus -> Break -> Focus round trips, enters
\* LongBreak on the next Focus completion, and on the completion after that is in
\* Focus with current_cycle = 1.
C1_CyclicInvariant ==
    ~hist.was_reset =>
        /\ mode = "LongBreak" => hist.trips = cycles - 1
        /\ mode = "Break" => hist.trips < cycles - 1
        /\ mode = "Focus" => hist.trips <= cycles - 1
        /\ (PhaseChanged /\ prev.mode = "LongBreak") =>
               (mode = "Focus" /\ current_cycle = 1 /\ hist.trips = 0)
        /\ (PhaseChanged /\ prev.mode = "Focus") =>
               mode = (IF hist.trips = cycles - 1 THEN "LongBreak" ELSE "Break")

C1_Witness ==
    /\ ~hist.was_reset
    /\ PhaseChanged
    /\ prev.mode = "LongBreak"
    /\ mode = "Focus"
    /\ cycles >= 2

\* C2 as claimed: from the initial state, after exactly focus*60 due ticks made while
\* running (no reset, no skip) the phase is Break with break*60 seconds left, cycle 1.
C2_BreakAfterFocusTicks ==
    (OnlyTicks /\ hist.ticks = focus * SECS_PER_MIN) =>
        /\ mode = "Break"
        /\ remaining_secs = break_time * SECS_PER_MIN
        /\ current_cycle = 1

\* C2 as amended: from the initial state, after n <= focus*60 due ticks made while
\* running the phase is still Focus with focus*60 - n seconds left; it is the tick
\* after those, number focus*60 + 1, that changes the phase: to Break with break*60
\* seconds left when cycles > 1, to LongBreak with long_break*60 left when cycles = 1,
\* current_cycle still 1.
C2_PhaseEndsOneTickLater ==
    OnlyTicks =>
        /\ hist.ticks <= focus * SECS_PER_MIN =>
              /\ mode = "Focus"
              /\ remaining_secs = focus * SECS_PER_MIN - hist.ticks
              /\ current_cycle = 1
        /\ hist.ticks = focus * SECS_PER_MIN + 1 =>
              /\ current_cycle = 1
              /\ IF cycles = 1
                 THEN mode = "LongBreak" /\ remaining_secs = long_break * SECS_PER_MIN
                 ELSE mode = "Break" /\ remaining_secs = break_time * SECS_PER_MIN

C2_Witness ==
    /\ OnlyTicks
    /\ hist.ticks = focus * SECS_PER_MIN + 1
    /\ mode = "Break"
    /\ op = "tick"

\* C3: a tick made while the session is paused changes neither the countdown, the
\* cycle, the phase nor the project's counters, and spawns no notification.
C3_PausedTickIsNoOp ==
    (op = "tick" /\ ~prev.running) =>
        /\ remaining_secs = prev.remaining_secs
        /\ current_cycle = prev.current_cycle
        /\ mode = prev.mode
        /\ project = prev.project
        /\ running = prev.running
        /\ emitted = 0

C3_Witness ==
    /\ op = "tick"
    /\ ~prev.running
    /\ prev.elapsed >= tick_rate
    /\ prev.remaining_secs > 0
    /\ prev.remaining_secs < PhaseSecs

\* C4 as claimed: the counters grow by the number of due ticks made while running:
\* focus_seconds by those made in Focus, total_seconds by all of them.
C4_EveryRunningTickCounts ==
    /\ project.focus_seconds = loaded.focus_seconds + hist.focus_ticks
    /\ project.total_seconds = loaded.total_seconds + hist.ticks

\* C4 as amended: the counters grow by the number of due ticks made while running
\* with remaining_seconds > 0: focus_seconds by those made in Focus, total_seconds by
\* all of them; a tick in Break or LongBreak leaves focus_seconds alone, and the tick
\* that ends a phase (remaining_seconds = 0) counts nothing.
C4_Accrual ==
    /\ project.focus_seconds = loaded.focus_seconds + hist.focus_counted
    /\ project.total_seconds = loaded.total_seconds + hist.counted
    /\ (op = "tick" /\ prev.mode # "Focus") =>
           project.focus_seconds = prev.project.focus_seconds
    /\ (op = "tick" /\ prev.running /\ prev.remaining_secs = 0) => project = prev.project

C4_Witness ==
    /\ hist.focus_counted > 0
    /\ hist.counted > hist.focus_counted
    /\ op = "tick"
    /\ project.total_seconds = prev.project.total_seconds + 1
    /\ project.focus_seconds = prev.project.focus_seconds

\* C5: right after reset(), from any state, the phase is Focus, the countdown is
\* focus*60 seconds and the session is paused.
C5_ResetToFocus ==
    op = "reset" =>
        /\ mode = "Focus"
        /\ remaining_secs = focus * SECS_PER_MIN
        /\ ~running

\* C6: right after reset() the cycle counter is 1.
C6_ResetCycleIsOne == op = "reset" => current_cycle = 1

\* C7: current_cycle >= 1 in every reachable state.
C7_CycleAtLeastOne == current_cycle >= 1

\* C8: the active project's focus_seconds never exceeds its total_seconds.
C8_FocusWithinTotal == project.focus_seconds <= project.total_seconds

C8_Witness ==
    /\ project.focus_seconds > loaded.focus_seconds
    /\ project.total_seconds - loaded.total_seconds
         > project.focus_seconds - loaded.focus_seconds

\* C9: skip spawns no notification; a due tick made while running with nothing left
\* on the countdown spawns exactly one; nothing else spawns any.
C9_NotifyOnlyOnCompletion ==
    /\ op = "skip" => emitted = 0
    /\ (op = "tick" /\ prev.running /\ prev.elapsed >= tick_rate
          /\ prev.remaining_secs = 0) => emitted = 1
    /\ emitted # 0 =>
          /\ emitted = 1
          /\ op = "tick"
          /\ prev.running
          /\ prev.remaining_secs = 0

C9_Witness ==
    /\ op = "tick"
    /\ emitted = 1
    /\ hist.was_skipped
    /\ hist.counted >= SECS_PER_MIN

\* C10: a phase change follows the transition table: Focus to LongBreak with
\* long_break*60 seconds when current_cycle = cycles, else to Break with break*60,
\* the cycle unchanged; Break to Focus with the cycle plus one; LongBreak to Focus
\* with the cycle 1; Focus always starts with focus*60 seconds.
C10_TransitionTable ==
    PhaseChanged =>
        CASE prev.mode = "Focus" ->
                /\ current_cycle = prev.current_cycle
                /\ IF prev.current_cycle = cycles
                   THEN mode = "LongBreak" /\ remaining_secs = long_break * SECS_PER_MIN
                   ELSE mode = "Break" /\ remaining_secs = break_time * SECS_PER_MIN
          [] prev.mode = "Break" ->
                /\ mode = "Focus"
                /\ current_cycle = prev.current_cycle + 1
                /\ remaining_secs = focus * SECS_PER_MIN
          [] prev.mode = "LongBreak" ->
                /\ mode = "Focus"
                /\ current_cycle = 1
                /\ remaining_secs = focus * SECS_PER_MIN

C10_Witness ==
    /\ PhaseChanged
    /\ prev.mode = "Break"
    /\ mode = "Focus"
    /\ current_cycle = 2
    /\ break_time # focus

\* the cycle counter was set to something other than itself or itself + 1
CycleRestarted ==
    /\ current_cycle # prev.current_cycle
    /\ current_cycle # prev.current_cycle + 1

\* C11 as claimed: the cycle counter is set to a value other than itself or itself
\* + 1 only by an advance from LongBreak to Focus; no other operation, reset
\* included, lowers or resets it.
C11_OnlyLongBreakExitRestarts ==
    CycleRestarted => (PhaseChanged /\ prev.mode = "LongBreak" /\ mode = "Focus")

\* C11 as amended: the cycle counter is set to a value other than itself or itself
\* + 1 only by an advance from LongBreak to Focus or by reset(); tick, toggle and
\* an advance from Focus or Break never lower it.
C11_OnlyLongBreakExitOrResetRestarts ==
    /\ CycleRestarted =>
          \/ PhaseChanged /\ prev.mode = "LongBreak" /\ mode = "Focus"
          \/ op = "reset"
    /\ (op \in {"tick", "toggle", "skip"} /\ ~(PhaseChanged /\ prev.mode = "LongBreak")) =>
          current_cycle >= prev.current_cycle

C11_Witness ==
    /\ PhaseChanged
    /\ prev.mode = "LongBreak"
    /\ mode = "Focus"
    /\ prev.current_cycle = 2
    /\ current_cycle = 1

\* the last operation was a due tick made while running with nothing left on the
\* countdown
CompletingTick ==
    /\ op = "tick"
    /\ prev.running
    /\ prev.elapsed >= tick_rate
    /\ prev.remaining_secs = 0

\* C12: a due tick made while running with remaining_seconds = 0 spawns the
\* notification, moves to the phase the transition table names with that phase's
\* full countdown, leaves the session running and changes no project counter.
C12_CompletingTick ==
    CompletingTick =>
        /\ emitted = 1
        /\ running
        /\ project = prev.project
        /\ remaining_secs = PhaseSecs
        /\ mode = (CASE prev.mode = "Focus" /\ prev.current_cycle = cycles -> "LongBreak"
                     [] prev.mode = "Focus" /\ prev.current_cycle # cycles -> "Break"
                     [] OTHER -> "Focus")
        /\ current_cycle = (CASE prev.mode = "Focus" -> prev.current_cycle
                              [] prev.mode = "Break" -> prev.current_cycle + 1
                              [] OTHER -> 1)

C12_Witness ==
    /\ CompletingTick
    /\ prev.mode = "Focus"
    /\ mode = "LongBreak"
    /\ running
    /\ project.total_seconds > 0

\* the projects table as the run found it
StoredAtStart == [n \in {loaded.name} |-> loaded.seconds]

\* the projects table with the session's counter written to the project's row
StoredAtQuit == [n \in {project.name} |-> project.seconds]

\* C13: the project is written to storage exactly once per run, at shutdown: while
\* the run loop runs (ticks, toggles, resets, skips, view switches) and when it
\* ends by an error the table is as the run found it and no write has been made;
\* a run ended by a quit key has made exactly one write, of the session's counter.
C13_SavedOnceAtQuit ==
    /\ pc \in {"poll", "check", "failed"} =>
          (trace.project_updates = 0 /\ db = StoredAtStart)
    /\ pc = "done" =>
          (trace.project_updates = 1 /\ op = "quit" /\ db = StoredAtQuit)

C13_Witness ==
    /\ pc = "done"
    /\ trace.project_updates = 1
    /\ project.seconds > loaded.seconds
    /\ hist.was_reset
    /\ hist.was_skipped

\* C14: whenever the run loop has ended after the session was created, by a quit
\* key or by an early return on a draw, poll or read error, the project has been
\* saved with its current counter.
C14_SavedOnEveryExit ==
    pc \in {"done", "failed"} =>
        (trace.project_updates >= 1 /\ db = StoredAtQuit)

\* C15: right after a 'p' key press in the timer view the overview is shown and the
\* session is paused, whatever it was before.
C15_OverviewPauses ==
    (op = "view" /\ is_project) => ~running

C15_Witness ==
    /\ op = "view"
    /\ is_project
    /\ prev.running
    /\ ~running

\* a key press in the overview that no arm of the run loop took
OverviewKeyIgnored == is_project /\ op \in {"space", "r", "s", "other"}

\* C16 as claimed: in the overview every key other than 'p' (space, r, s, q, Esc,
\* Ctrl-C, Ctrl-X, any other) leaves the session, the view and the running program
\* unchanged.
C16_OverviewKeysInert ==
    (is_project /\ op \in {"space", "r", "s", "other", "quit"}) =>
        /\ Snapshot = prev
        /\ pc = "check"
        /\ db = StoredAtStart

\* C16 as amended: in the overview space, r, s and any key other than p, q, Esc,
\* Ctrl-C and Ctrl-X leave the session, the view, the stored table and the running
\* program unchanged, and no key toggles, resets or skips; q, Esc, Ctrl-C and
\* Ctrl-X save the project and end the program as they do in the timer view.
C16_OverviewKeysInertButQuit ==
    /\ OverviewKeyIgnored =>
          /\ Snapshot = prev
          /\ pc = "check"
          /\ db = StoredAtStart
    /\ is_project => op \notin {"toggle", "reset", "skip"}
    /\ (is_project /\ op = "quit") =>
          /\ [Snapshot EXCEPT !.db = prev.db] = prev
          /\ pc = "done"
          /\ db = StoredAtQuit

C16_Witness ==
    /\ is_project
    /\ op = "s"
    /\ mode = "Break"
    /\ project.seconds > 0

\* the name main looks up: the --project flag's, or "none"
LookedUp == IF is_some(cli.project) THEN unwrap(cli.project) ELSE "none"

\* C17: get-or-create. Looking up a name with no stored row yields the record
\* {name, 0 seconds} and inserts it, the other rows untouched; looking up a name with
\* a stored row yields that row and leaves the table as it was; either way the
\* session starts with a project whose row is stored.
C17_GetOrCreate ==
    /\ op = "project" =>
          /\ project.name = LookedUp
          /\ IF LookedUp \in DOMAIN prev.db
             THEN /\ project = MainProject(LookedUp, prev.db[LookedUp])
                  /\ db = prev.db
             ELSE /\ project = MainProject(LookedUp, 0)
                  /\ DOMAIN db = DOMAIN prev.db \cup {LookedUp}
                  /\ db[LookedUp] = 0
                  /\ \A n \in DOMAIN prev.db : db[n] = prev.db[n]
    /\ op = "new" =>
          /\ project.name \in DOMAIN db
          /\ db[project.name] = project.seconds

C17_Witness ==
    /\ op = "project"
    /\ project = MainProject("widget", 1)
    /\ db = prev.db
    /\ db["none"] = 1

\* C18: config override. The stored config is written at startup exactly when one of
\* the four flags is given; a given flag replaces its field, a field with no flag
\* keeps its stored value; the session is built from the resulting values; with no
\* flag the run leaves the stored config as it was.
C18_ConfigOverride ==
    /\ op = "config" =>
          /\ config =
                [focus |-> IF cli.focus # <<>> THEN cli.focus[1]
                           ELSE prev.config_table[1].focus,
                 break_time |-> IF cli.break_time # <<>> THEN cli.break_time[1]
                                ELSE prev.config_table[1].break_time,
                 long_break |-> IF cli.long_break # <<>> THEN cli.long_break[1]
                                ELSE prev.config_table[1].long_break,
                 cycles |-> IF cli.cycles # <<>> THEN cli.cycles[1]
                            ELSE prev.config_table[1].cycles]
          /\ config_table[1] = config
          /\ trace.config_updates = (IF any_flag THEN 1 ELSE 0)
          /\ ~any_flag => config_table = prev.config_table
    /\ op \in {"project", "new", "tick", "quit"} =>
          /\ trace.config_updates = (IF any_flag THEN 1 ELSE 0)
          /\ config_table[1] = config
    /\ op \in {"project", "new", "tick"} => config_table = prev.config_table
    /\ op = "new" =>
          /\ focus = config.focus
          /\ break_time = config.break_time
          /\ long_break = config.long_break
          /\ cycles = config.cycles
          /\ remaining_secs = config.focus * SECS_PER_MIN

C18_Witness ==
    /\ op = "new"
    /\ cli.focus = <<MaxFlag>>
    /\ cli.cycles = <<>>
    /\ cli.break_time = <<>>
    /\ focus = MaxFlag
    /\ cycles = 0
    /\ break_time = DefaultConfig.break_time
    /\ trace.config_updates = 1

\* C19: config singleton and seeding. No storage state holds more than one config
\* row; once init_db has run there is exactly one, with id 1; init_db inserts the
\* row 25/5/15/4 when the table is empty and leaves the table alone otherwise; no
\* run inserts more than once and no override inserts.
C19_ConfigSingleton ==
    /\ Cardinality(DOMAIN config_table) <= 1
    /\ pc \in {"seeded", "config", "project", "session", "poll", "done"} =>
          DOMAIN config_table = {1}
    /\ op = "init_config" =>
          IF DOMAIN prev.config_table = {}
          THEN config_table[1] = DefaultConfig /\ trace.config_inserts = 1
          ELSE config_table = prev.config_table /\ trace.config_inserts = 0
    /\ op = "config" =>
          /\ DOMAIN config_table = DOMAIN prev.config_table
          /\ trace.config_inserts <= 1

C19_Witness ==
    /\ op = "config"
    /\ any_flag
    /\ trace.config_inserts = 0
    /\ prev.config_table[1] # DefaultConfig
    /\ config_table # prev.config_table

\* C20: the four config values are positive in every reachable state: in the stored
\* row, and in the session built from them after any override.
C20_ConfigPositive ==
    /\ \A id \in DOMAIN config_table :
          /\ config_table[id].focus > 0
          /\ config_table[id].break_time > 0
          /\ config_table[id].long_break > 0
          /\ config_table[id].cycles > 0
    /\ pc \in {"poll", "done"} =>
          (focus > 0 /\ break_time > 0 /\ long_break > 0 /\ cycles > 0)

\* C21: the project "none" is stored in every state after init_db has run, and
\* in every state in which the projects table has a row at all, whatever the
\* earlier runs were and whatever names their --project flags gave.
C21_NoneAlwaysStored ==
    /\ pc \in {"config", "project", "session", "poll", "done"} => "none" \in DOMAIN db
    /\ DOMAIN db # {} => "none" \in DOMAIN db

\* a run for the project "widget" is in its loop, over tables in which an
\* earlier run has saved a second to "none"
C21_Witness ==
    /\ pc = "poll"
    /\ project.name = "widget"
    /\ "widget" \in DOMAIN db
    /\ "none" \in DOMAIN db
    /\ db["none"] = 1

\* C23: no operation of the session lowers a counter of the project: after a
\* tick, a toggle, a reset, a skip or a step of the clock, focus_seconds and
\* total_seconds are what they were before it or more.
C23_CountersMonotonic ==
    op \in {"tick", "reset", "skip", "toggle", "advance"} =>
        /\ project.focus_seconds >= prev.project.focus_seconds
        /\ project.total_seconds >= prev.project.total_seconds

\* a reset in the middle of a countdown has left the counted seconds in place
C23_Witness ==
    /\ op = "reset"
    /\ prev.mode = "Focus"
    /\ prev.remaining_secs > 0
    /\ prev.remaining_secs < focus * SECS_PER_MIN
    /\ project.total_seconds > 0
    /\ project.focus_seconds > 0
    /\ project = prev.project

\* C24: one decrement for each elapsed second while running: a tick() made after
\* running has stayed true for all the seconds since the last tick has lowered
\* remaining_secs by the number of those seconds (none within the same second,
\* one after one second, two after two), as far as the countdown had seconds
\* left.
C24_OneDecrementPerSecond ==
    (/\ op = "tick"
     /\ prev.running
     /\ hist.ran = prev.elapsed
     /\ prev.remaining_secs >= prev.elapsed) =>
        prev.remaining_secs - remaining_secs = prev.elapsed

\* the second half of the claim: a tick() within the second of the last one
\* changes nothing
C24_SameSecondTickInert ==
    (op = "tick" /\ prev.elapsed < tick_rate) => Snapshot = prev

\* C22: the notification is fire-and-forget. A step of a notification thread,
\* whatever its outcome (the file is missing, the decoder or the device fails,
\* the sound plays to its end), leaves every field of the session as it was;
\* while a thread is alive at any stage, tick() is still enabled, so the loop
\* never waits for the sound; and a due tick counts its second, and the tick
\* that ends a phase starts the next one in full, whatever the threads are doing.
C22_NotifyFireAndForget ==
    /\ op = "thread" => Snapshot = prev
    /\ (threads # NoThreads /\ hist.counted < MaxSeconds) => ENABLED Tick
    /\ (/\ op = "tick"
        /\ prev.running
        /\ prev.elapsed >= tick_rate
        /\ prev.remaining_secs > 0) =>
          /\ remaining_secs = prev.remaining_secs - 1
          /\ mode = prev.mode
          /\ running
    /\ (op = "tick" /\ emitted = 1) =>
          /\ remaining_secs = PhaseSecs
          /\ running
          /\ threads["spawned"] >= 1

\* the sound of the phase that ended is still playing, and a tick has counted a
\* second of the next phase
C22_Witness ==
    /\ op = "tick"
    /\ threads["playing"] = 1
    /\ hist.ticks > hist.counted
    /\ remaining_secs = prev.remaining_secs - 1
    /\ mode = "Break"

\* the characters of the decimal digits
Digits == {Digit(d) : d \in 0..9}

\* t is a non-empty sequence of digits
IsNumeral(t) == Len(t) > 0 /\ \A i \in DOMAIN t : t[i] \in Digits

RECURSIVE Value(_)
\* the number a sequence of digits writes
Value(t) ==
    IF t = <<>>
    THEN 0
    ELSE Value(SubSeq(t, 1, Len(t) - 1)) * 10 + (CHOOSE d \in 0..9 : Digit(d) = t[Len(t)])

\* t is two digits that write n
TwoDigits(t, n) == Len(t) = 2 /\ IsNumeral(t) /\ Value(t) = n

\* t is the numeral of n with no zero in front
Plain(t, n) == IsNumeral(t) /\ Value(t) = n /\ (Len(t) > 1 => t[1] # "0")

\* t reads "<h>h <mm>m <ss>s" when the counter holds an hour or more and
\* "<m>m <ss>s" when it does not, with h * 3600 + m * 60 + s = counter, m < 60
\* and s < 60
ReadsAs(t, counter) ==
    LET n == Len(t) IN
    /\ n >= 6
    /\ t[n] = "s"
    /\ t[n - 3] = " "
    /\ t[n - 4] = "m"
    /\ \E s \in 0..59 :
         /\ TwoDigits(SubSeq(t, n - 2, n - 1), s)
         /\ IF "h" \in {t[i] : i \in DOMAIN t}
            THEN /\ n >= 10
                 /\ t[n - 7] = " "
                 /\ t[n - 8] = "h"
                 /\ \E m \in 0..59 :
                      /\ TwoDigits(SubSeq(t, n - 6, n - 5), m)
                      /\ \E h \in 1..(counter \div 3600) :
                           /\ Plain(SubSeq(t, 1, n - 9), h)
                           /\ h * 3600 + m * 60 + s = counter
            ELSE \E m \in 0..59 :
                      /\ Plain(SubSeq(t, 1, n - 5), m)
                      /\ m * 60 + s = counter

\* C25: the countdown is drawn as MM:SS, MM the numeral of remaining_secs div 60
\* and SS that of remaining_secs mod 60, each filled with zeros to two digits
\* (125 is drawn as 02:05; minutes of a hundred and more take their three
\* digits); a counter of the overview is drawn as hours, minutes and seconds
\* that add up to the counter, minutes and seconds below 60 and the hours there
\* exactly when the counter holds an hour (3661 is "1h 01m 01s", 65 is "1m 05s").
C25_TimeFormats ==
    /\ op = "draw" =>
          LET t == screen.timer
              n == Len(t)
          IN  /\ n >= 5
              /\ t[n - 2] = ":"
              /\ TwoDigits(SubSeq(t, n - 1, n), remaining_secs % 60)
              /\ IsNumeral(SubSeq(t, 1, n - 3))
              /\ Value(SubSeq(t, 1, n - 3)) = remaining_secs \div 60
              /\ n > 5 => t[1] # "0"
              /\ remaining_secs = 125 => t = <<"0", "2", ":", "0", "5">>
    /\ op = "overview" =>
          /\ ReadsAs(screen.focus, project.focus_seconds)
          /\ ReadsAs(screen.total, project.total_seconds)
          /\ project.total_seconds = 3661 =>
                screen.total = <<"1", "h", " ", "0", "1", "m", " ", "0", "1", "s">>
          /\ project.focus_seconds = 65 =>
                screen.focus = <<"1", "m", " ", "0", "5", "s">>

\* the overview has drawn the two examples: 65 seconds of focus in 3661 seconds
C25_Witness ==
    /\ op = "overview"
    /\ project.focus_seconds = 65
    /\ project.total_seconds = 3661
    /\ screen.focus = <<"1", "m", " ", "0", "5", "s">>
    /\ screen.total = <<"1", "h", " ", "0", "1", "m", " ", "0", "1", "s">>

\* C26: a session that has just been built is in Focus, in cycle 1, with the
\* whole focus time of the configuration left, paused, and with the counter of
\* its project equal to the stored record it was built from.
C26_NewSession ==
    op = "new" =>
        /\ mode = "Focus"
        /\ current_cycle = 1
        /\ focus = config.focus
        /\ remaining_secs = focus * SECS_PER_MIN
        /\ ~running
        /\ project = prev.project
        /\ project.name \in DOMAIN db
        /\ project.seconds = db[project.name]

\* a session is built for the project "widget" from a row an earlier run has
\* saved a second to, with a focus time given on the command line
C26_Witness ==
    /\ op = "new"
    /\ project = MainProject("widget", 1)
    /\ db["widget"] = 1
    /\ focus = MaxFlag
    /\ remaining_secs = MaxFlag * SECS_PER_MIN

\* the phase, the cycle and the countdown the completion of phase m in cycle c
\* leads to
Completion(m, c) ==
    CASE m = "Focus" ->
            IF c = cycles
            THEN <<"LongBreak", c, long_break * SECS_PER_MIN>>
            ELSE <<"Break", c, break_time * SECS_PER_MIN>>
      [] m = "Break" -> <<"Focus", c + 1, focus * SECS_PER_MIN>>
      [] m = "LongBreak" -> <<"Focus", 1, focus * SECS_PER_MIN>>

\* C27: a skip leaves the session in the phase, the cycle and the countdown that
\* the tick ending the same phase in the same cycle leaves it in, wherever in the
\* countdown the skip is made, and it changes neither running nor a counter of
\* the project.
C27_SkipIsCompletion ==
    /\ op = "skip" =>
          /\ <<mode, current_cycle, remaining_secs>> =
                Completion(prev.mode, prev.current_cycle)
          /\ running = prev.running
          /\ project = prev.project
    /\ CompletingTick =>
          <<mode, current_cycle, remaining_secs>> =
             Completion(prev.mode, prev.current_cycle)

\* a skip in the middle of the last Focus of a round, with the timer running
\* and seconds counted: the session is in LongBreak and still running
C27_Witness ==
    /\ op = "skip"
    /\ prev.mode = "Focus"
    /\ prev.remaining_secs > 0
    /\ prev.remaining_secs < focus * SECS_PER_MIN
    /\ prev.running
    /\ running
    /\ mode = "LongBreak"
    /\ project.total_seconds > 0

\* the model has counted the seconds it counts
Budget == hist.counted >= MaxSeconds

\* the phase ends that lie between the session and its next LongBreak: a Focus
\* in cycle c is followed by cycles - c Breaks with their Focuses; negative when
\* the cycle is past the last one
CompletionsToLongBreak ==
    CASE mode = "Focus" -> 2 * (cycles - current_cycle) + 1
      [] mode = "Break" -> 2 * (cycles - current_cycle)
      [] mode = "LongBreak" -> 0

\* C28: the session always has a step to take, and with fair ticks every phase
\* ends and LongBreak is entered again and again. In the form a finite run
\* refutes: in the run loop the toggle is enabled, and the next LongBreak is a
\* finite number of phase ends away.
C28_LongBreakAhead ==
    pc = "poll" =>
        /\ ENABLED KeyPress("space")
        /\ CompletionsToLongBreak >= 0

\* C28 for the sessions with positive settings, under SpecLive: while the timer
\* runs, every phase ends, and LongBreak is entered, unless the timer is paused
\* or the model's budget of seconds is used up first
C28_PhaseEnds ==
    \A m \in Modes : (running /\ mode = m) ~> (~running \/ mode # m \/ Budget)

C28_LongBreakComes ==
    (running /\ mode # "LongBreak") ~> (~running \/ mode = "LongBreak" \/ Budget)

\* the last step of the loop handled a key and went on to the tick check
KeyHandled ==
    /\ pc = "check"
    /\ op \in {"toggle", "reset", "skip", "view", "other"} \cup Keys

\* C29: keys neither starve nor postpone the tick. The poll times out only
\* when the second since last_tick is over, and then it does time out; a handled
\* key leaves last_tick where it was; and every iteration that reaches its end
\* with the second over makes the tick, whether it handled a key or not: the
\* loop skips the tick only when the second is not over.
C29_KeysDoNotStarveTick ==
    /\ op = "timeout" => prev.elapsed >= tick_rate
    /\ (pc = "poll" /\ elapsed >= tick_rate) => ENABLED PollTimeout
    /\ KeyHandled => elapsed = prev.elapsed
    /\ (pc = "check" /\ elapsed >= tick_rate /\ hist.counted < MaxSeconds) =>
          ENABLED TickCheck
    /\ (op = "tick" /\ pc = "poll") => (prev.elapsed >= tick_rate /\ elapsed = 0)
    /\ op = "idle" => prev.elapsed < tick_rate

\* a key has been handled in an iteration in which the second is over, with the
\* timer running: the tick check is next
C29_Witness ==
    /\ KeyHandled
    /\ op = "other"
    /\ elapsed >= tick_rate
    /\ running
    /\ remaining_secs > 0
    /\ ENABLED TickCheck

\* C30: in every state of the run loop the countdown is within the phase it
\* counts: remaining_secs is at least 0 and at most the configured length of
\* the current phase.
C30_RemainingWithinPhase ==
    pc \in {"poll", "check", "session"} =>
        /\ remaining_secs >= 0
        /\ remaining_secs <= PhaseSecs

\* C31: with cycles >= 1 the cycle counter never passes cycles, and the session
\* is in Break only in a cycle before the last one, after any interleaving of
\* ticks, toggles, resets and skips.
C31_CycleWithinCycles ==
    cycles >= 1 =>
        /\ current_cycle <= cycles
        /\ mode = "Break" => current_cycle < cycles

\* after a reset, skips have brought the session through a Break to the Focus
\* of the last of two cycles
C31_Witness ==
    /\ hist.was_reset
    /\ op = "skip"
    /\ prev.mode = "Break"
    /\ prev.current_cycle = cycles - 1
    /\ mode = "Focus"
    /\ current_cycle = cycles
    /\ cycles = 2

\* C32: a quit leaves the row of the session's project holding the session's
\* counter as it is at that moment, and leaves every other row of the projects
\* table and the config table as they were; and no step of the run loop before
\* the quit writes to either table.
C32_QuitSavesOnlyOwnRecord ==
    /\ op = "quit" =>
          /\ project.name \in DOMAIN db
          /\ db[project.name] = project.seconds
          /\ DOMAIN db = DOMAIN prev.db
          /\ \A n \in DOMAIN db \ {project.name} : db[n] = prev.db[n]
          /\ config_table = prev.config_table
    /\ (op = "tick" /\ pc = "poll") =>
          /\ db = prev.db
          /\ config_table = prev.config_table

\* a run for the project "widget" has quit with a counted second: its row has
\* gone from 0 to 1, and the row of "none" still holds its 0
C32_Witness ==
    /\ op = "quit"
    /\ project = MainProject("widget", 1)
    /\ prev.db["widget"] = 0
    /\ db["widget"] = 1
    /\ "none" \in DOMAIN db
    /\ db["none"] = 0
    /\ prev.db["none"] = 0

====
